---- MODULE Spec2Model ----
(***************************************************************************)
(* Location Autocomplete API (src/src/main.py, src/src/models.py).         *)
(*                                                                         *)
(* The three route handlers get_suggestions, get_geometry and get_name     *)
(* each make one GET to the upstream provider and shape its response; the  *)
(* health handler returns a constant.  A request is modelled in two steps, *)
(* split at the handler's only suspension point that matters, the          *)
(* `await client.get(...)`:                                                *)
(*   Call     everything up to and including the sending of the GET;       *)
(*   Respond  the upstream's answer (or the transport error) and the rest  *)
(*            of the handler, down to its return or raise.                 *)
(* Several requests may be suspended at the await at once.                 *)
(*                                                                         *)
(* The handlers keep no state between requests.  The circuit breaker of    *)
(* spec.md section 4.2 is therefore carried as an observer of one watched  *)
(* operation (watched, brk, obs, lastObs), driven by the outcomes the      *)
(* handlers really produce: it says what the specified breaker would have  *)
(* done with each call, and the claims compare that with what the code     *)
(* did.  The observer never influences the handlers.                       *)
(***************************************************************************)
EXTENDS Integers, Sequences, FiniteSets

\* ------------------------------------------------------------------ bounds

\* Requests that may be suspended at `await client.get` at the same time.
MaxInFlight == 2
\* Longest `predictions` list an autocomplete answer carries.
MaxPredictions == 1
\* The clock runs from 0 to MaxTime seconds, in steps of TickStep seconds.
MaxTime == 45
TickStep == 15

\* ----------------------------------------------------- spec.md parameters

\* spec.md 4.2: "reaching the configured threshold (default 3)".
FailureThreshold == 3
\* spec.md 4.2: "After the reset timeout (default 30s) elapses".
ResetTimeout == 30
\* spec.md 4.3: "up to a maximum of 3 total attempts".
MaxAttempts == 3

\* ------------------------------------------------------------ vocabulary

Ops == {"suggestions", "geometry", "name"}
Req == 1..MaxInFlight
\* models.py HealthStatus
UP == "UP"
DOWN == "DOWN"
HealthStatus == {UP, DOWN}
Probes == {"liveness", "cpu", "disk", "upstream"}

\* ------------------------------------------------- the upstream's answers

\* The fields the details endpoint's JSON object may carry (nested keys are
\* flattened: "lat" stands for result.geometry.location.lat).
DetailFields == {"result", "geometry", "location", "lat", "lng", "formatted_address"}
DetailFieldSets == {DetailFields} \cup {DetailFields \ {f} : f \in DetailFields} \cup {{}}

\* One prediction: the keys it has, and its values.
Items ==
  { [has |-> {"description", "place_id"}, description |-> "Paris", place_id |-> "ChIJ1"],
    [has |-> {"description", "place_id"}, description |-> "Parma", place_id |-> "ChIJ2"],
    [has |-> {"description"}, description |-> "Paris", place_id |-> "ChIJ1"],
    [has |-> {"place_id"}, description |-> "Paris", place_id |-> "ChIJ1"] }

SeqsUpTo(S, n) == UNION {[1..k -> S] : k \in 0..n}

\* A body that is not JSON (an HTML error page, an empty body).
NoBody ==
  [json |-> FALSE, fields |-> {}, lat |-> "", lng |-> "", formatted_address |-> "",
   has_predictions |-> FALSE, predictions |-> <<>>]

DetailsBodies ==
  { [json |-> TRUE, fields |-> F, lat |-> "46.05", lng |-> "14.51",
     formatted_address |-> "Ljubljana, Slovenia",
     has_predictions |-> FALSE, predictions |-> <<>>] : F \in DetailFieldSets }

AutocompleteBodies ==
  { [json |-> TRUE, fields |-> {}, lat |-> "", lng |-> "", formatted_address |-> "",
     has_predictions |-> FALSE, predictions |-> <<>>] }
  \cup
  { [json |-> TRUE, fields |-> {}, lat |-> "", lng |-> "", formatted_address |-> "",
     has_predictions |-> TRUE, predictions |-> p] : p \in SeqsUpTo(Items, MaxPredictions) }

BodiesFor(op) == IF op = "suggestions" THEN AutocompleteBodies ELSE DetailsBodies

SuccessStatuses == {200}
ErrorStatuses == {301, 404, 500, 503}

\* httpx.RequestError: the GET got no answer (timeout, connection reset, ...).
TransportError == [kind |-> "RequestError", status |-> 0, body |-> NoBody]
NoResponse == [kind |-> "none", status |-> 0, body |-> NoBody]

\* Everything `await client.get(...)` can produce for a call of `op`.
UpstreamResponses(op) ==
  {TransportError}
  \cup {[kind |-> "http", status |-> s, body |-> NoBody] : s \in ErrorStatuses}
  \cup {[kind |-> "http", status |-> s, body |-> b] :
          s \in SuccessStatuses, b \in {NoBody} \cup BodiesFor(op)}

\* A small choice of answers, for the specifications that run the clock:
\* a complete 200, a transport error, a 503 and a 404.
FullBody(op) ==
  IF op = "suggestions"
  THEN CHOOSE b \in AutocompleteBodies : b.has_predictions /\ b.predictions = <<>>
  ELSE CHOOSE b \in DetailsBodies : b.fields = DetailFields
CoarseResponses(op) ==
  { TransportError,
    [kind |-> "http", status |-> 503, body |-> NoBody],
    [kind |-> "http", status |-> 404, body |-> NoBody],
    [kind |-> "http", status |-> 200, body |-> FullBody(op)] }

\* ------------------------------------------------------------ the handlers

\* What a handler hands back to the framework: a returned dict (HTTP 200) or
\* a raised HTTPException(status_code).
NoPayload ==
  [tag |-> "none", suggestions |-> <<>>, latitude |-> "", longitude |-> "",
   geometry |-> <<>>, name |-> ""]
NoOutcome == [kind |-> "none", status_code |-> 0, payload |-> NoPayload]
HTTPException(code) == [kind |-> "HTTPException", status_code |-> code, payload |-> NoPayload]
Returned(p) == [kind |-> "return", status_code |-> 200, payload |-> p]

\* How a try block ended: with a value, or with an exception of some class.
Value(p) == [exc |-> "none", value |-> p]
Raise(cls) == [exc |-> cls, value |-> NoPayload]

\* httpx Response.raise_for_status(): raises HTTPStatusError unless the status
\* is a success (2xx).  TRUE when it raises.
raise_for_status(r) == ~(r.status \in 200..299)

\* dict lookups by key: KeyError when a key on the path is absent.
HasPath(body, path) == path \subseteq body.fields

\* The try block of get_suggestions.
get_suggestions_try(r) ==
  IF r.kind = "RequestError" THEN Raise("RequestError")
  ELSE IF raise_for_status(r) THEN Raise("HTTPStatusError")
  ELSE IF ~r.body.json THEN Raise("Exception")
  ELSE
    LET predictions == IF r.body.has_predictions THEN r.body.predictions ELSE <<>>
    IN IF \E i \in 1..Len(predictions) :
            ~({"description", "place_id"} \subseteq predictions[i].has)
       THEN Raise("Exception")
       ELSE Value([NoPayload EXCEPT
              !.tag = "suggestions",
              !.suggestions =
                 [i \in 1..Len(predictions) |->
                    [description |-> predictions[i].description,
                     place_id |-> predictions[i].place_id]]])

\* The try block of get_geometry.
get_geometry_try(r) ==
  IF r.kind = "RequestError" THEN Raise("RequestError")
  ELSE IF raise_for_status(r) THEN Raise("HTTPStatusError")
  ELSE IF ~r.body.json THEN Raise("Exception")
  ELSE IF ~HasPath(r.body, {"result", "geometry", "location", "lat"}) THEN Raise("Exception")
  ELSE IF ~HasPath(r.body, {"result", "geometry", "location", "lng"}) THEN Raise("Exception")
  ELSE Value([NoPayload EXCEPT
         !.tag = "geometry",
         !.latitude = r.body.lat,
         !.longitude = r.body.lng,
         !.geometry = <<"POINT", r.body.lng, r.body.lat>>])

\* The try block of get_name.
get_name_try(r) ==
  IF r.kind = "RequestError" THEN Raise("RequestError")
  ELSE IF raise_for_status(r) THEN Raise("HTTPStatusError")
  ELSE IF ~r.body.json THEN Raise("Exception")
  ELSE IF ~HasPath(r.body, {"result", "formatted_address"}) THEN Raise("Exception")
  ELSE Value([NoPayload EXCEPT !.tag = "name", !.name = r.body.formatted_address])

\* except_clauses with `except Exception` written first: it catches
\* httpx.RequestError and httpx.HTTPStatusError too, and every failure is a 400.
except_clauses_generic_first(t, r) ==
  IF t.exc = "none" THEN Returned(t.value) ELSE HTTPException(400)

\* The three except clauses every handler ends with, in their order.
except_clauses(t, r) ==
  IF t.exc = "none" THEN Returned(t.value)
  ELSE IF t.exc = "RequestError" THEN HTTPException(500)
  ELSE IF t.exc = "HTTPStatusError" THEN HTTPException(r.status)
  ELSE HTTPException(400)

get_suggestions(r) == except_clauses(get_suggestions_try(r), r)
get_geometry(r) == except_clauses(get_geometry_try(r), r)
get_name(r) == except_clauses(get_name_try(r), r)

\* The route table: the handler of each operation, applied to what its one
\* `await client.get(...)` produced.
Handler(op, r) ==
  CASE op = "suggestions" -> get_suggestions(r)
    [] op = "geometry" -> get_geometry(r)
    [] op = "name" -> get_name(r)

\* health(): `return {"status": "ok"}`; no probe is run, no component reported.
health_handler == [status |-> "ok", components |-> <<>>]

\* ------------------------------------------------------------------ state

VARIABLES
  slot,     \* the requests suspended at `await client.get(...)`
  last,     \* the request that finished last: its answer and its outcome
  health,   \* the last health check: the probes' state then, and the response
  now,      \* the clock, in seconds
  watched,  \* observer: the operation whose breaker is followed
  brk,      \* observer: the breaker of spec.md 4.2 for the watched operation
  obs,      \* observer: per suspended request, what the breaker did with it
  lastObs   \* observer: the same for the request that finished last

codeVars == <<slot, last, health>>
obsVars == <<watched, brk, obs, lastObs>>
vars == <<slot, last, health, now, watched, brk, obs, lastObs>>

IdleSlot == [pc |-> "idle", op |-> "none", calls |-> 0]
NoLast == [op |-> "none", resp |-> NoResponse, outcome |-> NoOutcome, calls |-> 0]
NoHealth ==
  [called |-> FALSE, probes |-> [p \in Probes |-> UP],
   response |-> [status |-> "", components |-> <<>>]]

\* The free slot a new request takes.
FreeSlot == CHOOSE x \in Req : slot[x].pc = "idle" /\ \A y \in Req : slot[y].pc = "idle" => x <= y

\* A handler is entered and runs to its `await client.get(api_url, params)`:
\* the GET is sent, whatever earlier requests did.
Call(op) ==
  /\ \E s \in Req : slot[s].pc = "idle"
  /\ slot' = [slot EXCEPT ![FreeSlot] = [pc |-> "awaiting", op |-> op, calls |-> 1]]
  /\ UNCHANGED <<last, health, now>>

\* The await ends with r, and the handler runs to its return or raise.
Respond(s, r) ==
  /\ slot[s].pc = "awaiting"
  /\ last' = [op |-> slot[s].op, resp |-> r, outcome |-> Handler(slot[s].op, r),
              calls |-> slot[s].calls]
  /\ slot' = [slot EXCEPT ![s] = IdleSlot]
  /\ UNCHANGED <<health, now>>

\* GET /health while the four probes would report p.
Health(p) ==
  /\ health' = [called |-> TRUE, probes |-> p, response |-> health_handler]
  /\ UNCHANGED <<slot, last, now>>

\* Time passes.
Tick ==
  /\ now + TickStep <= MaxTime
  /\ now' = now + TickStep
  /\ UNCHANGED <<slot, last, health>>

\* ----------------------------------------------- the breaker of spec.md 4.2

\* `reopened` tells an OPEN entered from HALF_OPEN from one entered from
\* CLOSED; `overlap` tells that two of the counted failures came from
\* invocations that were in flight at the same time.
ClosedBreaker ==
  [state |-> "CLOSED", failures |-> 0, openSince |-> 0, reopened |-> FALSE, overlap |-> FALSE]

\* OPEN and the reset timeout not yet elapsed at time t: calls fail fast.
Rejecting(b, t) == b.state = "OPEN" /\ t - b.openSince < ResetTimeout

\* OPEN -> HALF_OPEN on the first call made after the reset timeout.
BreakerOnCall(b, t) ==
  IF b.state = "OPEN" /\ t - b.openSince >= ResetTimeout
  THEN [b EXCEPT !.state = "HALF_OPEN"]
  ELSE b

\* The terminal outcome of a call the breaker let through, recorded at time t.
\* A call the breaker rejected has no outcome to record.
BreakerOnOutcome(b, expect, sawFail, failed, t) ==
  IF expect # "pass" THEN b
  ELSE IF failed THEN
    CASE b.state = "HALF_OPEN" ->
           [b EXCEPT !.state = "OPEN", !.openSince = t, !.reopened = TRUE]
      [] b.state = "CLOSED" ->
           IF b.failures + 1 >= FailureThreshold
           THEN [state |-> "OPEN", failures |-> b.failures + 1, openSince |-> t,
                 reopened |-> FALSE, overlap |-> b.overlap \/ sawFail]
           ELSE [b EXCEPT !.failures = b.failures + 1, !.overlap = b.overlap \/ sawFail]
      [] OTHER -> b
  ELSE IF b.state \in {"CLOSED", "HALF_OPEN"} THEN ClosedBreaker
  ELSE b

\* What the observer notes of a request: what the breaker did with the call
\* ("reject": fail fast with CircuitOpenError and no upstream call; "pass"),
\* the breaker's reopened and overlap flags as the call found them, and
\* whether a counted failure of the same operation was recorded while the
\* request was in flight.
NoObs == [expect |-> "none", reopened |-> FALSE, overlap |-> FALSE, sawFail |-> FALSE]

ObserveCall(op) ==
  /\ obs' = [obs EXCEPT ![FreeSlot] =
               IF op = watched
               THEN [expect |-> IF Rejecting(brk, now) THEN "reject" ELSE "pass",
                     reopened |-> brk.reopened, overlap |-> brk.overlap, sawFail |-> FALSE]
               ELSE NoObs]
  /\ brk' = IF op = watched THEN BreakerOnCall(brk, now) ELSE brk
  /\ UNCHANGED <<watched, lastObs>>

ObserveRespond(s, r) ==
  LET failed == Handler(slot[s].op, r).kind = "HTTPException"
      counted == obs[s].expect = "pass"
  IN /\ lastObs' = obs[s]
     /\ obs' = [x \in Req |->
                  IF x = s THEN NoObs
                  ELSE IF counted /\ obs[x].expect = "pass"
                    THEN [obs[x] EXCEPT !.sawFail = failed]
                  ELSE obs[x]]
     /\ brk' = BreakerOnOutcome(brk, obs[s].expect, obs[s].sawFail, failed, now)
     /\ UNCHANGED watched

\* --------------------------------------------------------- specifications

Init ==
  /\ slot = [s \in Req |-> IdleSlot]
  /\ last = NoLast
  /\ health = NoHealth
  /\ now = 0
  /\ watched \in Ops
  /\ brk = ClosedBreaker
  /\ obs = [s \in Req |-> NoObs]
  /\ lastObs = NoObs

CallAny == \E op \in Ops : Call(op) /\ UNCHANGED obsVars
RespondAny ==
  \E s \in Req : \E r \in UpstreamResponses(slot[s].op) : Respond(s, r) /\ UNCHANGED obsVars
RespondCoarse ==
  \E s \in Req : \E r \in CoarseResponses(slot[s].op) : Respond(s, r) /\ UNCHANGED obsVars
HealthAny == \E p \in [Probes -> HealthStatus] : Health(p) /\ UNCHANGED obsVars
CallObserved == \E op \in Ops : Call(op) /\ ObserveCall(op)
RespondObserved ==
  \E s \in Req : \E r \in CoarseResponses(slot[s].op) : Respond(s, r) /\ ObserveRespond(s, r)
Clock == Tick /\ UNCHANGED obsVars

\* The handlers with every answer the upstream can give.
Next == CallAny \/ RespondAny
Spec == Init /\ [][Next]_vars

\* The handlers over time, with the breaker of spec.md 4.2 observing.
NextTimed == CallObserved \/ RespondObserved \/ Clock
SpecTimed == Init /\ [][NextTimed]_vars

\* The handlers and the health check.
NextHealth == CallAny \/ RespondCoarse \/ HealthAny
SpecHealth == Init /\ [][NextHealth]_vars

\* ------------------------------------------------------------------ claims

\* The outcome the four cases of C10 name for a call of `op` answered by r.
IsSuccess(r) == r.kind = "http" /\ r.status >= 200 /\ r.status <= 299
ExpectedFields(op, body) ==
  /\ body.json
  /\ CASE op = "suggestions" ->
            \A i \in DOMAIN body.predictions :
               body.predictions[i].has = {"description", "place_id"}
       [] op = "geometry" ->
            {"result", "geometry", "location", "lat", "lng"} \subseteq body.fields
       [] op = "name" -> {"result", "formatted_address"} \subseteq body.fields
ShapedPayload(op, body) ==
  CASE op = "suggestions" ->
         [tag |-> "suggestions",
          suggestions |-> [i \in DOMAIN body.predictions |->
                             [description |-> body.predictions[i].description,
                              place_id |-> body.predictions[i].place_id]],
          latitude |-> "", longitude |-> "", geometry |-> <<>>, name |-> ""]
    [] op = "geometry" ->
         [tag |-> "geometry", suggestions |-> <<>>,
          latitude |-> body.lat, longitude |-> body.lng,
          geometry |-> <<"POINT", body.lng, body.lat>>, name |-> ""]
    [] op = "name" ->
         [tag |-> "name", suggestions |-> <<>>, latitude |-> "", longitude |-> "",
          geometry |-> <<>>, name |-> body.formatted_address]
ClaimedOutcome(op, r) ==
  IF r.kind = "RequestError" THEN [kind |-> "HTTPException", status_code |-> 500]
  ELSE IF ~IsSuccess(r) THEN [kind |-> "HTTPException", status_code |-> r.status]
  ELSE IF ExpectedFields(op, r.body) THEN [kind |-> "return", status_code |-> 200]
  ELSE [kind |-> "HTTPException", status_code |-> 400]

\* C10: every finished request of get_suggestions, get_geometry and get_name
\* made exactly one upstream call and ended in the one of four outcomes that
\* this call's answer alone selects: the shaped payload on a 2xx answer with
\* the expected fields, HTTPException 500 on a transport error, HTTPException
\* with the upstream's status on a non-2xx answer, HTTPException 400 on any
\* other exception (a body that is not JSON, a missing field).  It holds in
\* every reachable state, so after every history of earlier requests.  (A
\* missing `predictions` list raises nothing: get_suggestions reads it as
\* empty and returns the payload.)
C10_OutcomeFromOwnCall ==
  last.op # "none" =>
    /\ last.calls = 1
    /\ last.outcome.kind = ClaimedOutcome(last.op, last.resp).kind
    /\ last.outcome.status_code = ClaimedOutcome(last.op, last.resp).status_code
    /\ last.outcome.payload =
         IF last.outcome.kind = "return"
         THEN ShapedPayload(last.op, last.resp.body)
         ELSE NoPayload

\* C10 witness: a geometry request answered 200 with a JSON body that lacks
\* a field ended in HTTPException 400 while another request was in flight.
C10_Witness ==
  /\ last.op = "geometry"
  /\ last.resp.status = 200
  /\ last.resp.body.json
  /\ "lng" \notin last.resp.body.fields
  /\ last.outcome = HTTPException(400)
  /\ \E s \in Req : slot[s].pc = "awaiting"

\* spec.md 3, FailureClassification: network errors and 5xx are TRANSIENT,
\* 4xx and a malformed body are PERMANENT.
Transient(r) == r.kind = "RequestError" \/ (r.kind = "http" /\ r.status >= 500 /\ r.status <= 599)
Permanent(op, r) ==
  /\ r.kind = "http"
  /\ \/ r.status >= 400 /\ r.status <= 499
     \/ IsSuccess(r) /\ ~ExpectedFields(op, r.body)

\* C1: a call of the watched operation made once its consecutive terminal
\* failures had reached the threshold (the breaker opened from CLOSED) and
\* before the reset timeout elapsed made no upstream call and ended in
\* CircuitOpenError.
C1_FailFastAtThreshold ==
  (last.op = watched /\ lastObs.expect = "reject" /\ ~lastObs.reopened) =>
    /\ last.calls = 0
    /\ last.outcome.kind = "CircuitOpenError"

\* C2: a suggest call whose upstream answered HTTP 503 to every attempt ended
\* in RetryExhaustedError after three attempts, as one terminal failure.
C2_RetryExhaustedOn503 ==
  (last.op = "suggestions" /\ last.resp.kind = "http" /\ last.resp.status = 503) =>
    /\ last.outcome.kind = "RetryExhaustedError"
    /\ last.calls = MaxAttempts

\* C3: a finished invocation made at most three upstream calls and ended in
\* RetryExhaustedError when every attempt failed transiently; it made exactly
\* one call when the first attempt failed permanently, and no call after a
\* success.
C3_RetryBudget ==
  last.op # "none" =>
    /\ Transient(last.resp) =>
         last.calls <= MaxAttempts /\ last.outcome.kind = "RetryExhaustedError"
    /\ Permanent(last.op, last.resp) => last.calls = 1
    /\ last.outcome.kind = "return" => last.calls <= MaxAttempts

\* C4: while the breaker of the watched operation is OPEN and the reset
\* timeout has not elapsed, a call of that operation sends nothing upstream
\* and leaves the breaker as it is; the breaker leaves OPEN only for
\* HALF_OPEN, and only once the reset timeout has elapsed.
C4_OpenRejectsUntilTimeout ==
  [][ /\ \A s \in Req :
            (Rejecting(brk, now) /\ slot[s].pc = "idle"
               /\ slot'[s].pc = "awaiting" /\ slot'[s].op = watched)
            => (slot'[s].calls = 0 /\ brk' = brk)
      /\ (brk.state = "OPEN" /\ brk'.state # "OPEN")
          => (brk'.state = "HALF_OPEN" /\ now - brk.openSince >= ResetTimeout)
    ]_vars

\* C5: after the trial call of HALF_OPEN failed, the breaker is OPEN again
\* with open-since at the time of that failure, and a following call made
\* before a full reset timeout has elapsed again fails fast: no upstream
\* call, CircuitOpenError.
C5_ReopenedRejects ==
  (last.op = watched /\ lastObs.expect = "reject" /\ lastObs.reopened) =>
    /\ last.calls = 0
    /\ last.outcome.kind = "CircuitOpenError"

\* C7: the health check answers ok exactly when liveness, cpu, disk and
\* upstream are all UP and error otherwise, and its components mapping
\* reports each probe's own status.
C7_ReadinessVerdict ==
  health.called =>
    /\ health.response.status = "ok" <=> \A p \in Probes : health.probes[p] = UP
    /\ health.response.status = "error" <=> \E p \in Probes : health.probes[p] = DOWN
    /\ \A p \in Probes :
         /\ p \in DOMAIN health.response.components
         /\ health.response.components[p].status = health.probes[p]

\* C8: failures of invocations that were in flight at the same time are all
\* counted: once they have brought the watched operation to its threshold,
\* the breaker has tripped, and the next call before the reset timeout makes
\* no upstream call.
C8_ConcurrentFailuresCounted ==
  (last.op = watched /\ lastObs.expect = "reject" /\ lastObs.overlap) => last.calls = 0

\* C9: a name call answered by a successful response whose payload lacks
\* formatted_address ended in MalformedResponseError after exactly one
\* upstream call.
C9_MalformedNameResponse ==
  ( /\ last.op = "name"
    /\ IsSuccess(last.resp)
    /\ last.resp.body.json
    /\ "result" \in last.resp.body.fields
    /\ "formatted_address" \notin last.resp.body.fields ) =>
    /\ last.outcome.kind = "MalformedResponseError"
    /\ last.calls = 1

====
